---- MODULE Spec2Model ----
(***************************************************************************)
(* Gesture-driven particle simulation: the Particle class, the             *)
(* ParticleCanvas component (population, animation loop, hand detector)    *)
(* and the theme service with its caller.                                  *)
(*                                                                         *)
(* Numbers.  A JavaScript number is modelled as an integer count of        *)
(* hundredths (1.2 is 120, a pixel is 100), or as the value NaN.           *)
(* Products and quotients are rounded towards zero, which keeps the sign   *)
(* symmetry of IEEE rounding: (-a)*b = -(a*b).                             *)
(***************************************************************************)
EXTENDS Integers, Sequences, FiniteSets, TLC

VARIABLES
    config,        \* App state `config` (the prop of ParticleCanvas and UIOverlay)
    canvas,        \* canvasRef.current: [width, height]
    particles,     \* particlesRef.current
    handPosRef,    \* handPosRef.current
    rng,           \* position of Math.random() in its stream
    requestRef,    \* requestRef.current
    rafAnimate,    \* requestAnimationFrame: pending animate callbacks
    rafPredict,    \* requestAnimationFrame: pending predictWebcam callbacks
    video,         \* the <video> element: "idle", "playing" or "paused"
    apiKey,        \* whether process.env.API_KEY is set
    loading,       \* UIOverlay state `loading`: a theme request is in flight
    last,          \* history: what the latest Particle.update did
    frames,        \* history: number of frames run so far
    born,          \* history: for each particle, the build that constructed it
    builds,        \* history: number of population builds so far
    replacements,  \* history: number of setConfig calls so far
    detectorFailed,\* history: the latest detector run threw
    theme          \* history: how the latest theme generation ended

particleVars == <<config, canvas, particles, handPosRef, rng, last, frames>>

engineVars ==
    <<requestRef, rafAnimate, rafPredict, video, apiKey, loading, born,
      builds, replacements, detectorFailed, theme>>

vars == <<particleVars, engineVars>>

----------------------------------------------------------------------------
(* Numbers *)

NaN == -(2^30)

IsNaN(a) == a = NaN

Finite(a) == ~IsNaN(a)

Abs(a) == IF a < 0 THEN -a ELSE a

Sign(a) == IF a < 0 THEN -1 ELSE 1

\* whole + hundredths/100
Num(whole, hundredths) == whole * 100 + hundredths

AddF(a, b) == IF IsNaN(a) \/ IsNaN(b) THEN NaN ELSE a + b

SubF(a, b) == IF IsNaN(a) \/ IsNaN(b) THEN NaN ELSE a - b

NegF(a) == IF IsNaN(a) THEN NaN ELSE -a

MulF(a, b) ==
    IF IsNaN(a) \/ IsNaN(b) THEN NaN
    ELSE Sign(a) * Sign(b) * ((Abs(a) * Abs(b)) \div 100)

\* 0/0 is NaN.  The divisors of Particle.update are `distance` and
\* `currentRadius`; a nonzero dividend over a zero divisor does not arise
\* (distance = 0 only when dx = dy = 0, and currentRadius > distance >= 0).
DivF(a, b) ==
    IF IsNaN(a) \/ IsNaN(b) \/ b = 0 THEN NaN
    ELSE Sign(a) * Sign(b) * ((Abs(a) * 100) \div Abs(b))

\* comparisons with NaN are false
LtF(a, b) == Finite(a) /\ Finite(b) /\ a < b

GtF(a, b) == Finite(a) /\ Finite(b) /\ a > b

LeF(a, b) == Finite(a) /\ Finite(b) /\ a <= b

RECURSIVE ISqrt(_)
ISqrt(n) ==
    IF n < 2 THEN n
    ELSE LET s == 2 * ISqrt(n \div 4)
         IN  IF (s + 1) * (s + 1) > n THEN s ELSE s + 1

\* Math.sqrt(dx * dx + dy * dy), dx and dy in hundredths
SqrtSumSq(dx, dy) ==
    IF IsNaN(dx) \/ IsNaN(dy) THEN NaN ELSE ISqrt(dx * dx + dy * dy)

\* Math.floor(r * n) for r in [0,1) and a length n
FloorMul(r, n) == (r * n) \div 100

----------------------------------------------------------------------------
(* types.ts *)

REPEL == "repel"

ATTRACT == "attract"

TRAIL == "trail"

InteractionMode == {REPEL, ATTRACT, TRAIL}

\* the gesture field of HandPosition is optional
Gestures == {"open", "closed", "undefined"}

INITIAL_CONFIG ==
    [gravity |-> 0, friction |-> Num(0, 96), speed |-> Num(1, 50),
     particleCount |-> 400,
     interactionRadius |-> Num(150, 0), interactionForce |-> Num(2, 0),
     interactionMode |-> REPEL,
     colors |-> <<"#60A5FA", "#818CF8", "#A78BFA", "#C084FC", "#FFFFFF">>,
     colorsRef |-> 0,
     minSize |-> Num(2, 0), maxSize |-> Num(6, 0), fadeRate |-> Num(0, 5)]

----------------------------------------------------------------------------
(* Math.random(): a stream of values of [0,1), in hundredths *)

RandTable == <<50, 50, 0, 99, 25, 0, 75>>

RandAt(r, k) == RandTable[((r + k) % Len(RandTable)) + 1]

RandAdvance(r, k) == (r + k) % Len(RandTable)

\* the values a single draw is taken from when draws are inputs
Rands == {0, 50, 99}

----------------------------------------------------------------------------
(* class Particle *)

\* constructor(width, height, config); rs are the six Math.random() results
NewParticle(width, height, cfg, rs) ==
    LET x == MulF(rs[1], width)
        y == MulF(rs[2], height)
        k == FloorMul(rs[6], Len(cfg.colors))
    IN  [x |-> x, y |-> y, baseX |-> x, baseY |-> y,
         vx |-> MulF(rs[3] - 50, cfg.speed),
         vy |-> MulF(rs[4] - 50, cfg.speed),
         size |-> AddF(MulF(rs[5], SubF(cfg.maxSize, cfg.minSize)), cfg.minSize),
         color |-> IF k + 1 \in DOMAIN cfg.colors THEN cfg.colors[k + 1]
                   ELSE "undefined",
         life |-> 100]

\* (mutant) the gesture does not override the Trail mode
currentMode_KeepsTrail(cfg, hand) ==
    IF cfg.interactionMode = TRAIL THEN TRAIL
    ELSE IF hand.gesture = "closed" THEN ATTRACT
    ELSE IF hand.gesture = "open" THEN REPEL
    ELSE cfg.interactionMode

\* lines 47-58: the mode, radius and force used for the force
currentMode(cfg, hand) ==
    IF hand.gesture = "closed" THEN ATTRACT
    ELSE IF hand.gesture = "open" THEN REPEL
    ELSE cfg.interactionMode

currentForce(cfg, hand) ==
    IF hand.gesture = "closed" THEN MulF(cfg.interactionForce, Num(1, 50))
    ELSE IF hand.gesture = "open" THEN MulF(cfg.interactionForce, Num(1, 20))
    ELSE cfg.interactionForce

currentRadius(cfg, hand) ==
    IF hand.gesture = "closed" THEN MulF(cfg.interactionRadius, Num(1, 20))
    ELSE cfg.interactionRadius

ZeroVec == [x |-> 0, y |-> 0]

\* lines 68-78: the velocity added along the unit direction, by mode
Push(forceDirectionX, forceDirectionY, power, mode) ==
    IF mode = REPEL
      THEN [x |-> NegF(MulF(forceDirectionX, power)),
            y |-> NegF(MulF(forceDirectionY, power))]
    ELSE IF mode = ATTRACT
      THEN [x |-> MulF(forceDirectionX, power),
            y |-> MulF(forceDirectionY, power)]
    ELSE IF mode = TRAIL
      THEN [x |-> MulF(MulF(forceDirectionX, power), Num(0, 10)),
            y |-> MulF(MulF(forceDirectionY, power), Num(0, 10))]
    ELSE ZeroVec

\* lines 60-79: the force for a hand at offset (dx, dy) and at `distance`
Force(dx, dy, distance, mode, radius, cforce) ==
    IF ~LtF(distance, radius) THEN ZeroVec
    ELSE Push(DivF(dx, distance), DivF(dy, distance),
              MulF(DivF(SubF(radius, distance), radius), cforce), mode)

\* lines 42-44
Offset(dx, dy, mode, radius, cforce) ==
    Force(dx, dy, SqrtSumSq(dx, dy), mode, radius, cforce)

\* lines 41-80: what the hand adds to (vx, vy) for a particle at (px, py)
HandInteraction(px, py, width, height, cfg, hand) ==
    IF ~hand.detected THEN ZeroVec
    ELSE Offset(SubF(MulF(hand.x, width), px), SubF(MulF(hand.y, height), py),
                currentMode(cfg, hand), currentRadius(cfg, hand),
                currentForce(cfg, hand))

\* (mutant) a particle on the left or upper edge counts as outside
OutOfBounds_EdgeIsOutside(x, y, life, width, height) ==
    \/ LeF(x, 0)
    \/ GtF(x, width)
    \/ LeF(y, 0)
    \/ GtF(y, height)
    \/ life <= 0

\* line 86: the particle left the canvas (or its life ran out)
OutOfBounds(x, y, life, width, height) ==
    \/ LtF(x, 0)
    \/ GtF(x, width)
    \/ LtF(y, 0)
    \/ GtF(y, height)
    \/ life <= 0

\* (mutant) a respawn also draws a new size, as the constructor does
Respawn_ResamplesSize(p, width, height, cfg, hand, rs) ==
    IF cfg.interactionMode = TRAIL /\ hand.detected
      THEN [p EXCEPT
              !.x = AddF(MulF(hand.x, width), MulF(rs[1] - 50, Num(20, 0))),
              !.y = AddF(MulF(hand.y, height), MulF(rs[2] - 50, Num(20, 0))),
              !.vx = MulF(MulF(rs[3] - 50, cfg.speed), Num(2, 0)),
              !.vy = MulF(MulF(rs[4] - 50, cfg.speed), Num(2, 0)),
              !.size = AddF(MulF(rs[1], SubF(cfg.maxSize, cfg.minSize)),
                            cfg.minSize),
              !.life = 100]
      ELSE [p EXCEPT
              !.x = MulF(rs[1], width),
              !.y = MulF(rs[2], height),
              !.vx = MulF(rs[3] - 50, cfg.speed),
              !.vy = MulF(rs[4] - 50, cfg.speed),
              !.size = AddF(MulF(rs[1], SubF(cfg.maxSize, cfg.minSize)),
                            cfg.minSize),
              !.life = 100]

\* (mutant) emits from the hand in trail mode whether or not it is detected
Respawn_IgnoresDetected(p, width, height, cfg, hand, rs) ==
    IF cfg.interactionMode = TRAIL
      THEN [p EXCEPT
              !.x = AddF(MulF(hand.x, width), MulF(rs[1] - 50, Num(20, 0))),
              !.y = AddF(MulF(hand.y, height), MulF(rs[2] - 50, Num(20, 0))),
              !.vx = MulF(MulF(rs[3] - 50, cfg.speed), Num(2, 0)),
              !.vy = MulF(MulF(rs[4] - 50, cfg.speed), Num(2, 0)),
              !.life = 100]
      ELSE [p EXCEPT
              !.x = MulF(rs[1], width),
              !.y = MulF(rs[2], height),
              !.vx = MulF(rs[3] - 50, cfg.speed),
              !.vy = MulF(rs[4] - 50, cfg.speed),
              !.life = 100]

\* lines 87-100: rs are the four Math.random() results of the respawn
Respawn(p, width, height, cfg, hand, rs) ==
    IF cfg.interactionMode = TRAIL /\ hand.detected
      THEN [p EXCEPT
              !.x = AddF(MulF(hand.x, width), MulF(rs[1] - 50, Num(20, 0))),
              !.y = AddF(MulF(hand.y, height), MulF(rs[2] - 50, Num(20, 0))),
              !.vx = MulF(MulF(rs[3] - 50, cfg.speed), Num(2, 0)),
              !.vy = MulF(MulF(rs[4] - 50, cfg.speed), Num(2, 0)),
              !.life = 100]
      ELSE [p EXCEPT
              !.x = MulF(rs[1], width),
              !.y = MulF(rs[2], height),
              !.vx = MulF(rs[3] - 50, cfg.speed),
              !.vy = MulF(rs[4] - 50, cfg.speed),
              !.life = 100]

\* lines 85-101, for the particle `moved` by lines 82-83, as a record of
\* what update did: p the particle after update, delta the velocity added
\* for the hand, moved the position before line 85, out the test of line 86
Boundaries(moved, out, delta, width, height, cfg, hand, rs) ==
    [p |-> IF out THEN Respawn(moved, width, height, cfg, hand, rs)
           ELSE moved,
     delta |-> delta,
     eff |-> [mode |-> currentMode(cfg, hand),
              force |-> currentForce(cfg, hand),
              radius |-> currentRadius(cfg, hand)],
     moved |-> [x |-> moved.x, y |-> moved.y],
     out |-> out]

\* lines 82-86, for the velocity (vx, vy) after the hand interaction
Move(p, vx, vy, delta, width, height, cfg, hand, rs) ==
    Boundaries([p EXCEPT !.vx = vx, !.vy = vy,
                         !.x = AddF(p.x, vx), !.y = AddF(p.y, vy)],
               OutOfBounds(AddF(p.x, vx), AddF(p.y, vy), p.life, width, height),
               delta, width, height, cfg, hand, rs)

\* lines 36-83, for the velocity delta the hand adds
Integrate(p, delta, width, height, cfg, hand, rs) ==
    Move(p, AddF(MulF(p.vx, cfg.friction), delta.x),
         AddF(MulF(AddF(p.vy, cfg.gravity), cfg.friction), delta.y),
         delta, width, height, cfg, hand, rs)

\* update(width, height, config, hand); rs are the Math.random() results
\* a respawn uses
UpdateTrace(p, width, height, cfg, hand, rs) ==
    Integrate(p, HandInteraction(p.x, p.y, width, height, cfg, hand),
              width, height, cfg, hand, rs)

Update(p, width, height, cfg, hand, rs) ==
    UpdateTrace(p, width, height, cfg, hand, rs).p

----------------------------------------------------------------------------
(* History of the latest Particle.update: its arguments and what it did *)

NoParticle ==
    [x |-> 0, y |-> 0, baseX |-> 0, baseY |-> 0, vx |-> 0, vy |-> 0,
     size |-> 0, color |-> "undefined", life |-> 0]

NoHand == [x |-> 0, y |-> 0, detected |-> FALSE, gesture |-> "undefined"]

NoUpdate ==
    [did |-> FALSE, p0 |-> NoParticle, width |-> 0, height |-> 0,
     cfg |-> INITIAL_CONFIG, hand |-> NoHand,
     delta |-> ZeroVec,
     eff |-> [mode |-> REPEL, force |-> 0, radius |-> 0],
     moved |-> ZeroVec, out |-> FALSE]

NoTheme == [ended |-> "none", thrown |-> FALSE, cfgAfter |-> INITIAL_CONFIG]

Record(p, width, height, cfg, hand, t) ==
    [did |-> TRUE, p0 |-> p, width |-> width, height |-> height,
     cfg |-> cfg, hand |-> hand,
     delta |-> t.delta, eff |-> t.eff, moved |-> t.moved, out |-> t.out]

----------------------------------------------------------------------------
(* Particle.update on its own: one particle, the arguments drawn from      *)
(* small sets, update applied frame after frame                            *)

MaxFrames == 3

Canvases == {[width |-> Num(100, 0), height |-> Num(100, 0)]}

HandPoints == {<<0, 50>>, <<50, 50>>, <<100, 100>>}

Hands ==
    {[x |-> pt[1], y |-> pt[2], detected |-> TRUE, gesture |-> g] :
        pt \in HandPoints, g \in Gestures}
    \cup {[x |-> 100, y |-> 100, detected |-> FALSE, gesture |-> "undefined"]}

\* <<gravity, friction, speed>>
Physics == {<<0, Num(1, 0), 0>>,
            <<0, Num(0, 96), Num(1, 50)>>,
            <<Num(0, 50), Num(0, 95), Num(5, 0)>>}

UpdateConfigs ==
    {[INITIAL_CONFIG EXCEPT
        !.gravity = ph[1], !.friction = ph[2], !.speed = ph[3],
        !.interactionMode = m,
        !.interactionRadius = Num(100, 0)] :
        ph \in Physics, m \in InteractionMode}

\* the Math.random() results of one constructor call (the first four) and
\* of one respawn, as tuples
InitDraws == {<<a, b, c, c>> : a \in Rands, b \in Rands, c \in Rands}

RespawnDraws == {<<a, a, c, c>> : a \in Rands, c \in {0, 50}}

InitUpdate ==
    /\ canvas \in Canvases
    /\ config \in UpdateConfigs
    /\ handPosRef \in Hands
    /\ \E rs \in InitDraws :
          particles = <<NewParticle(canvas.width, canvas.height, config,
                                    <<rs[1], rs[2], rs[3], rs[4], 50, 0>>)>>
    /\ rng = 0
    /\ last = NoUpdate
    /\ frames = 0
    /\ requestRef = 0
    /\ rafAnimate = {}
    /\ rafPredict = {}
    /\ video = "idle"
    /\ apiKey = FALSE
    /\ loading = FALSE
    /\ born = <<0>>
    /\ builds = 0
    /\ replacements = 0
    /\ detectorFailed = FALSE
    /\ theme = NoTheme

UpdateStep ==
    /\ frames < MaxFrames
    /\ \E rs \in RespawnDraws :
          \E t \in {UpdateTrace(particles[1], canvas.width, canvas.height,
                                config, handPosRef, rs)} :
             /\ particles' = <<t.p>>
             /\ last' = Record(particles[1], canvas.width, canvas.height,
                               config, handPosRef, t)
    /\ frames' = frames + 1
    /\ UNCHANGED <<config, canvas, handPosRef, rng>>
    /\ UNCHANGED engineVars

NextUpdate == UpdateStep

SpecUpdate == InitUpdate /\ [][NextUpdate]_vars

----------------------------------------------------------------------------
(* Properties of Particle.update (checked under SpecUpdate) *)

\* the latest update moved the particle out of the canvas
Exited(l) ==
    \/ LtF(l.moved.x, 0)
    \/ GtF(l.moved.x, l.width)
    \/ LtF(l.moved.y, 0)
    \/ GtF(l.moved.y, l.height)

\* (x, y) lies in [0,width) x [0,height)
InsideCanvas(p, width, height) ==
    /\ LeF(0, p.x) /\ LtF(p.x, width)
    /\ LeF(0, p.y) /\ LtF(p.y, height)

\* the respawn of the latest update took the emit-from-pointer path
EmitPath(l) == l.cfg.interactionMode = TRAIL /\ l.hand.detected

\* (x, y) is the pointer's pixel position plus a jitter of [-10,10) per axis
NearPointer(p, l) ==
    LET hx == MulF(l.hand.x, l.width)
        hy == MulF(l.hand.y, l.height)
    IN  /\ LeF(SubF(hx, Num(10, 0)), p.x) /\ LtF(p.x, AddF(hx, Num(10, 0)))
        /\ LeF(SubF(hy, Num(10, 0)), p.y) /\ LtF(p.y, AddF(hy, Num(10, 0)))

\* C1 as stated: a particle that update moved out of the canvas is, after
\* that update, inside [0,width) x [0,height) with life 1, on both respawn
\* paths.
C1_RespawnInsideCanvas ==
    (last.did /\ Exited(last)) =>
        /\ InsideCanvas(particles[1], last.width, last.height)
        /\ particles[1].life = Num(1, 0)

\* C1 as amended: a particle that update moved out of the canvas has, after
\* that update, life 1; on the random-reset path it is inside
\* [0,width) x [0,height); on the emit-from-pointer path it is within 10 px
\* of the pointer's pixel position on each axis (possibly outside the canvas).
C1_RespawnPosition ==
    (last.did /\ Exited(last)) =>
        /\ particles[1].life = Num(1, 0)
        /\ IF EmitPath(last)
             THEN NearPointer(particles[1], last)
             ELSE InsideCanvas(particles[1], last.width, last.height)

C1_Witness ==
    /\ last.did /\ Exited(last) /\ EmitPath(last)
    /\ ~InsideCanvas(particles[1], last.width, last.height)

FiniteParticle(p) ==
    Finite(p.x) /\ Finite(p.y) /\ Finite(p.vx) /\ Finite(p.vy)

\* the latest update found the particle exactly at the detected pointer
AtPointer(l) ==
    /\ l.hand.detected
    /\ MulF(l.hand.x, l.width) = l.p0.x
    /\ MulF(l.hand.y, l.height) = l.p0.y

\* C2: when the pointer is detected and the particle sits exactly at the
\* pointer's pixel position, update adds the zero vector and the particle's
\* x, y, vx and vy are finite afterwards.
C2_ZeroDistanceIsZeroForce ==
    (last.did /\ AtPointer(last)) =>
        /\ last.delta = ZeroVec
        /\ FiniteParticle(particles[1])

\* the effective mode, force and radius the gesture decides (section 4.1)
GestureTable(cfg, hand) ==
    CASE hand.gesture = "closed" ->
           [mode |-> ATTRACT,
            force |-> MulF(cfg.interactionForce, Num(1, 50)),
            radius |-> MulF(cfg.interactionRadius, Num(1, 20))]
      [] hand.gesture = "open" ->
           [mode |-> REPEL,
            force |-> MulF(cfg.interactionForce, Num(1, 20)),
            radius |-> cfg.interactionRadius]
      [] OTHER ->
           [mode |-> cfg.interactionMode,
            force |-> cfg.interactionForce,
            radius |-> cfg.interactionRadius]

\* the reference force field (section 4.1) for the arguments of an update
RefDelta(l) ==
    LET e == GestureTable(l.cfg, l.hand)
        dx == MulF(l.hand.x, l.width) - l.p0.x
        dy == MulF(l.hand.y, l.height) - l.p0.y
        distance == ISqrt(dx * dx + dy * dy)
    IN  IF ~l.hand.detected \/ distance >= e.radius \/ distance = 0
          THEN ZeroVec
        ELSE
          LET power == MulF(DivF(e.radius - distance, e.radius), e.force)
              ux == DivF(dx, distance)
              uy == DivF(dy, distance)
          IN  CASE e.mode = REPEL ->
                     [x |-> -MulF(ux, power), y |-> -MulF(uy, power)]
                [] e.mode = ATTRACT ->
                     [x |-> MulF(ux, power), y |-> MulF(uy, power)]
                [] e.mode = TRAIL ->
                     [x |-> MulF(MulF(ux, power), Num(0, 10)),
                      y |-> MulF(MulF(uy, power), Num(0, 10))]

\* C9: the velocity delta update adds for the pointer equals the reference
\* force field for every particle position, pointer signal and configuration.
C9_DeltaIsReferenceField ==
    (last.did /\ FiniteParticle(last.p0)) => last.delta = RefDelta(last)

\* C10: when the pointer is detected, the mode, force and radius used for
\* the force are those the gesture decides (Closed: Attract, force * 1.5,
\* radius * 1.2; Open: Repel, force * 1.2, radius; absent: the
\* configuration's), whatever config.interactionMode is, and the stored
\* configuration is the one passed in.
C10_GestureDecides ==
    (last.did /\ last.hand.detected) =>
        /\ last.eff = GestureTable(last.cfg, last.hand)
        /\ config = last.cfg

C10_Witness ==
    /\ last.did /\ last.hand.detected
    /\ last.hand.gesture = "closed"
    /\ last.cfg.interactionMode = TRAIL
    /\ last.delta # ZeroVec

----------------------------------------------------------------------------
(* geminiService.ts *)

\* lines 75-87: the config of the "Error Fallback" theme
FallbackConfig ==
    [gravity |-> 0, friction |-> Num(0, 95), speed |-> Num(1, 0),
     particleCount |-> 200,
     interactionRadius |-> Num(150, 0), interactionForce |-> Num(1, 0),
     interactionMode |-> REPEL,
     colors |-> <<"#ffffff", "#aaaaaa">>,
     colorsRef |-> 0,
     minSize |-> Num(1, 0), maxSize |-> Num(3, 0), fadeRate |-> Num(0, 2)]

\* how a call of the model API can end
ApiOutcomes == {"ok", "requestError", "emptyText", "badJson"}

\* generateThemeFromDescription(description), given whether the key is set,
\* how the API call ended and, when it ended "ok", the config of the parsed
\* response: [thrown, config]
generateThemeFromDescription(key, outcome, parsed) ==
    IF ~key THEN [thrown |-> TRUE, config |-> FallbackConfig]
    ELSE IF outcome = "ok" THEN [thrown |-> FALSE, config |-> parsed]
    ELSE [thrown |-> FALSE, config |-> FallbackConfig]

----------------------------------------------------------------------------
(* ParticleCanvas.tsx: the component *)

\* the size of a <canvas> element that sets no width or height
DefaultCanvas == [width |-> Num(300, 0), height |-> Num(150, 0)]

\* line 116
InitialHandPos == [x |-> 50, y |-> 50, detected |-> FALSE, gesture |-> "open"]

\* the values of a config, without the identity of its colors array
Values(cfg) ==
    [gravity |-> cfg.gravity, friction |-> cfg.friction, speed |-> cfg.speed,
     particleCount |-> cfg.particleCount,
     interactionRadius |-> cfg.interactionRadius,
     interactionForce |-> cfg.interactionForce,
     interactionMode |-> cfg.interactionMode, colors |-> cfg.colors,
     minSize |-> cfg.minSize, maxSize |-> cfg.maxSize,
     fadeRate |-> cfg.fadeRate]

\* a config object built anew holds a colors array no other config holds
Fresh(cfg) == [cfg EXCEPT !.colorsRef = 1 - config.colorsRef]

\* (mutant) particleCount is no dependency of the Init Particles effect
DepsChanged_WithoutCount(prev, next) ==
    \/ prev.colorsRef # next.colorsRef
    \/ prev.colors # next.colors
    \/ prev.minSize # next.minSize
    \/ prev.maxSize # next.maxSize

\* line 263: the dependencies of the Init Particles effect, compared by
\* Object.is
DepsChanged(prev, next) ==
    \/ prev.particleCount # next.particleCount
    \/ prev.colorsRef # next.colorsRef
    \/ prev.colors # next.colors
    \/ prev.minSize # next.minSize
    \/ prev.maxSize # next.maxSize

\* lines 259-262: the Init Particles effect; r is the position of
\* Math.random(): [ps, born, rng]
InitParticles(width, height, cfg, r) ==
    [ps |-> [i \in 1..cfg.particleCount |->
               NewParticle(width, height, cfg,
                 <<RandAt(r, 6 * (i - 1)), RandAt(r, 6 * (i - 1) + 1),
                   RandAt(r, 6 * (i - 1) + 2), RandAt(r, 6 * (i - 1) + 3),
                   RandAt(r, 6 * (i - 1) + 4), RandAt(r, 6 * (i - 1) + 5)>>)],
     born |-> [i \in 1..cfg.particleCount |-> builds + 1],
     rng |-> RandAdvance(r, 6 * cfg.particleCount)]

\* the four Math.random() results that follow position r
Draw4(r) == <<RandAt(r, 0), RandAt(r, 1), RandAt(r, 2), RandAt(r, 3)>>

\* lines 275-278: particlesRef.current.forEach(p => p.update(...)); r is the
\* position of Math.random(): [ps, rng].  Whether a particle respawns does
\* not depend on Math.random(), so the position particle i draws at is r
\* advanced by four for each particle before i that respawns.
UpdateAll(ps, r, width, height, cfg, hand) ==
    LET n == Len(ps)
        first == [j \in 1..n |->
                    UpdateTrace(ps[j], width, height, cfg, hand, Draw4(r))]
        exits == {j \in 1..n : first[j].out}
        before(i) == Cardinality({j \in exits : j < i})
    IN  [ps |-> [i \in 1..n |->
                   IF i \in exits
                   THEN Update(ps[i], width, height, cfg, hand,
                               Draw4(RandAdvance(r, 4 * before(i))))
                   ELSE first[i].p],
         rng |-> RandAdvance(r, 4 * Cardinality(exits))]

\* lines 280-298: the interaction cursor animate draws after the updates:
\* a disc at the pointer and the "Interaction Radius guide" circle around it
Overlay(cfg, hand, width, height) ==
    [shown |-> hand.detected,
     x |-> MulF(hand.x, width),
     y |-> MulF(hand.y, height),
     closed |-> hand.gesture = "closed",
     radius |-> cfg.interactionRadius]

\* the handle requestAnimationFrame returns: one no pending callback has
NewHandle(pending) ==
    CHOOSE h \in 1..(Cardinality(pending) + 1) : h \notin pending

Handles(q) == {cb.id : cb \in q}

\* (mutant) the cleanup of the animation effect cancels nothing
CancelAnimationFrame_Skipped(q, h) == q

\* line 317: cancelAnimationFrame(requestRef.current)
CancelAnimationFrame(q, h) == {cb \in q : cb.id # h}

\* lines 181-209: landmarks are given by the palm centre (landmark 9), the
\* hand scale and the average distance of the finger tips to the wrist
detectHandGesture(lm) ==
    IF LtF(lm.avgTipDist, MulF(lm.scale, Num(1, 60))) THEN "closed" ELSE "open"

----------------------------------------------------------------------------
(* Bounds and inputs of the component's specifications *)

MaxAnimations == 2

MaxReplacements == 2

WindowSizes == {[width |-> Num(100, 0), height |-> Num(100, 0)],
                [width |-> Num(200, 0), height |-> Num(100, 0)]}

\* what the detector can find: a fist at the centre, an open hand at the
\* left edge of the camera image
Landmarks == {[x |-> 50, y |-> 50, scale |-> 10, avgTipDist |-> 10],
              [x |-> 100, y |-> 50, scale |-> 10, avgTipDist |-> 20]}

\* configs a theme response can carry
ThemeConfigs ==
    {[FallbackConfig EXCEPT !.particleCount = 10, !.interactionMode = TRAIL],
     [FallbackConfig EXCEPT !.particleCount = 5, !.colors = <<>>,
                            !.minSize = Num(3, 0), !.maxSize = Num(1, 0)]}

\* positions of the Particle Count slider and of the Speed slider
SliderCounts == {100}

SliderSpeeds == {Num(0, 10)}

----------------------------------------------------------------------------
(* The component: mount, then one action per callback *)

\* after mount: the Init Particles effect has run on the default canvas,
\* then the animation effect has sized the canvas to the window and
\* requested the first frame
Init ==
    /\ config = INITIAL_CONFIG
    /\ canvas \in WindowSizes
    /\ rng = RandAdvance(0, 6 * INITIAL_CONFIG.particleCount)
    /\ builds = 1
    /\ particles = InitParticles(DefaultCanvas.width, DefaultCanvas.height,
                                 INITIAL_CONFIG, 0).ps
    /\ born = [i \in 1..INITIAL_CONFIG.particleCount |-> 1]
    /\ handPosRef = InitialHandPos
    /\ requestRef = 1
    /\ rafAnimate = {[id |-> 1, cfg |-> INITIAL_CONFIG]}
    /\ rafPredict = {}
    /\ video = "idle"
    /\ apiKey \in BOOLEAN
    /\ loading = FALSE
    /\ last = NoUpdate
    /\ frames = 0
    /\ replacements = 0
    /\ detectorFailed = FALSE
    /\ theme = NoTheme

\* lines 266-301: one frame, run from the pending callback cb
animate(cb) ==
    /\ cb \in rafAnimate
    /\ frames < MaxAnimations
    /\ \E u \in {UpdateAll(particles, rng, canvas.width, canvas.height,
                            cb.cfg, handPosRef)} :
          /\ particles' = u.ps
          /\ rng' = u.rng
    /\ LET rest == rafAnimate \ {cb}
           h == NewHandle(Handles(rest) \cup rafPredict)
       IN  /\ rafAnimate' = rest \cup {[id |-> h, cfg |-> cb.cfg]}
           /\ requestRef' = h
    /\ frames' = frames + 1
    /\ UNCHANGED <<config, canvas, handPosRef, last, rafPredict, video, apiKey,
                   loading, born, builds, replacements, detectorFailed, theme>>

\* lines 304-309: the window's resize event
handleResize(size) ==
    /\ size \in WindowSizes
    /\ size # canvas
    /\ canvas' = size
    /\ UNCHANGED <<config, particles, handPosRef, rng, last, frames>>
    /\ UNCHANGED engineVars

\* setConfig(next) and the render it causes: the Init Particles effect when
\* one of its dependencies changed (lines 255-263), then the animation
\* effect, whose dependency `animate` changes with every config object:
\* cleanup (lines 315-318) and setup (lines 304-313)
SetConfig(next) ==
    /\ replacements < MaxReplacements
    /\ replacements' = replacements + 1
    /\ config' = next
    /\ IF DepsChanged(config, next)
         THEN \E b \in {InitParticles(canvas.width, canvas.height, next, rng)} :
                 /\ particles' = b.ps
                 /\ born' = b.born
                 /\ rng' = b.rng
                 /\ builds' = builds + 1
         ELSE UNCHANGED <<particles, born, rng, builds>>
    /\ LET rest == CancelAnimationFrame(rafAnimate, requestRef)
           h == NewHandle(Handles(rest) \cup rafPredict)
       IN  /\ rafAnimate' = rest \cup {[id |-> h, cfg |-> next]}
           /\ requestRef' = h
    /\ UNCHANGED <<canvas, handPosRef, last, frames, rafPredict, video, apiKey,
                   detectorFailed>>

\* UIOverlay.tsx lines 19-35, with no API key: generateThemeFromDescription
\* throws at once, the handler catches and logs
handleGeminiSubmit_NoKey ==
    /\ ~loading
    /\ ~apiKey
    /\ generateThemeFromDescription(apiKey, "ok", config).thrown
    /\ theme' = [ended |-> "failed", thrown |-> TRUE, cfgAfter |-> config]
    /\ UNCHANGED particleVars
    /\ UNCHANGED <<requestRef, rafAnimate, rafPredict, video, apiKey, loading,
                   born, builds, replacements, detectorFailed>>

\* UIOverlay.tsx lines 19-25, with an API key: up to the await
handleGeminiSubmit ==
    /\ ~loading
    /\ apiKey
    /\ loading' = TRUE
    /\ UNCHANGED particleVars
    /\ UNCHANGED <<requestRef, rafAnimate, rafPredict, video, apiKey, born,
                   builds, replacements, detectorFailed, theme>>

\* UIOverlay.tsx lines 25-34: the awaited call returns; the API call ended
\* as `outcome`, with `parsed` the config of its response
themeReturns(outcome, parsed) ==
    /\ loading
    /\ LET r == generateThemeFromDescription(apiKey, outcome, parsed)
       IN  /\ ~r.thrown
           /\ SetConfig(Fresh(r.config))
           /\ theme' = [ended |-> IF outcome = "ok" THEN "ok" ELSE "failed",
                        thrown |-> FALSE, cfgAfter |-> Fresh(r.config)]
    /\ loading' = FALSE

\* UIOverlay.tsx line 121: the Particle Count slider
onChangeParticleCount(n) ==
    /\ n \in SliderCounts
    /\ n # config.particleCount
    /\ SetConfig([config EXCEPT !.particleCount = n])
    /\ UNCHANGED <<loading, theme>>

\* UIOverlay.tsx line 137: the Speed slider
onChangeSpeed(s) ==
    /\ s \in SliderSpeeds
    /\ s # config.speed
    /\ SetConfig([config EXCEPT !.speed = s])
    /\ UNCHANGED <<loading, theme>>

\* the component with its configuration producers; no hand is shown
Next ==
    \/ \E cb \in rafAnimate : animate(cb)
    \/ \E size \in WindowSizes : handleResize(size)
    \/ handleGeminiSubmit_NoKey
    \/ handleGeminiSubmit
    \/ \E parsed \in ThemeConfigs : themeReturns("ok", parsed)
    \/ \E outcome \in ApiOutcomes \ {"ok"} : themeReturns(outcome, FallbackConfig)
    \/ \E n \in SliderCounts : onChangeParticleCount(n)

Spec == Init /\ [][Next]_vars

----------------------------------------------------------------------------
(* The hand detector *)

\* how detectForVideo can end: a hand with landmarks lm, no hand, an exception
DetectorOutcomes ==
    {[kind |-> "hand", lm |-> lm] : lm \in Landmarks}
      \cup {[kind |-> "none"], [kind |-> "throw"]}

\* lines 220-251 of predictWebcam: the detector ends as `outcome`, then the
\* next run is requested unless the video is paused; pending are the other
\* predictWebcam callbacks
Detect(outcome, pending) ==
    /\ detectorFailed' = (outcome.kind = "throw")
    /\ handPosRef' =
         CASE outcome.kind = "hand" ->
                [x |-> 100 - outcome.lm.x, y |-> outcome.lm.y,
                 detected |-> TRUE, gesture |-> detectHandGesture(outcome.lm)]
           [] outcome.kind = "none" ->
                [handPosRef EXCEPT !.detected = FALSE, !.gesture = "undefined"]
           [] outcome.kind = "throw" -> handPosRef
    /\ rafPredict' =
         IF video' = "playing"
           THEN pending \cup {NewHandle(Handles(rafAnimate) \cup pending)}
           ELSE pending

\* line 162: the video's loadeddata event calls predictWebcam
loadeddata ==
    /\ video = "idle"
    /\ video' = "playing"
    /\ \E outcome \in DetectorOutcomes : Detect(outcome, rafPredict)
    /\ UNCHANGED <<config, canvas, particles, rng, last, frames, requestRef,
                   rafAnimate, apiKey, loading, born, builds, replacements,
                   theme>>

\* lines 212-252: predictWebcam run from the pending callback h
predictWebcam(h) ==
    /\ h \in rafPredict
    /\ video' = video
    /\ \E outcome \in DetectorOutcomes : Detect(outcome, rafPredict \ {h})
    /\ UNCHANGED <<config, canvas, particles, rng, last, frames, requestRef,
                   rafAnimate, apiKey, loading, born, builds, replacements,
                   theme>>

\* the video is paused
pause ==
    /\ video = "playing"
    /\ video' = "paused"
    /\ UNCHANGED particleVars
    /\ UNCHANGED <<requestRef, rafAnimate, rafPredict, apiKey, loading, born,
                   builds, replacements, detectorFailed, theme>>

\* the component with the detector and the Speed slider
NextDetector ==
    \/ \E cb \in rafAnimate : animate(cb)
    \/ loadeddata
    \/ \E h \in rafPredict : predictWebcam(h)
    \/ pause
    \/ \E s \in SliderSpeeds : onChangeSpeed(s)

\* the detector does not use the API key
InitDetector == Init /\ apiKey = TRUE

SpecDetector == InitDetector /\ [][NextDetector]_vars

----------------------------------------------------------------------------
(* Properties of the component (checked under Spec) *)

\* C3: after any sequence of frames, config replacements and resizes the
\* population has exactly config.particleCount particles, and a step that
\* changes particleCount rebuilds it: every particle afterwards was
\* constructed by that step, none survives from the old population.
C3_PopulationRebuilt ==
    /\ [](Len(particles) = config.particleCount)
    /\ [][config'.particleCount # config.particleCount
            => /\ builds' = builds + 1
               /\ Len(particles') = config'.particleCount
               /\ Len(born') = config'.particleCount
               /\ \A i \in 1..Len(born') : born'[i] = builds']_vars

\* two changes of particleCount have been made, the second to 5, and a frame
\* has run: the 5 particles all come from the last build
C3_Witness ==
    /\ builds = 3
    /\ frames > 0
    /\ config.particleCount = 5
    /\ Len(particles) = 5
    /\ \A i \in 1..5 : born[i] = 3

\* C4: replacing the config by a copy with the same values (a new record
\* with a new colors array) changes nothing: the population is not rebuilt
\* and Math.random() is not consumed, so the trajectories go on as before.
C4_IdenticalCopyChangesNothing ==
    [][(/\ replacements' = replacements + 1
        /\ Values(config') = Values(config)
        /\ config'.colorsRef # config.colorsRef)
         => /\ particles' = particles
            /\ rng' = rng
            /\ builds' = builds]_vars

\* C6: every failed theme generation ends with the config replaced by the
\* default one, and none reaches handleGeminiSubmit as a thrown error.
C6_FailureGivesDefault ==
    theme.ended = "failed"
      => /\ ~theme.thrown
         /\ Values(theme.cfgAfter) = Values(FallbackConfig)

\* C7: every particle has a colour of config.colors and a size within
\* [minSize, maxSize], whichever producer the config came from.
C7_ParticlesWithinConfig ==
    \A i \in 1..Len(particles) :
       /\ \E k \in 1..Len(config.colors) : particles[i].color = config.colors[k]
       /\ LeF(config.minSize, particles[i].size)
       /\ LeF(particles[i].size, config.maxSize)

----------------------------------------------------------------------------
(* Properties of the callbacks' scheduling (checked under SpecDetector) *)

\* C5: after a detector run that threw, the pointer signal the next frame
\* reads has detected = false.
C5_FailureClearsDetected ==
    detectorFailed => ~handPosRef.detected

\* C8: a frame is one uninterrupted call of animate, which passes one config
\* and one pointer signal to every particle; at most one animate callback is
\* ever pending, the one requestRef names, and it is no detector callback,
\* also after config replacements have restarted the loop.
C8_OneAnimationLoop ==
    /\ Cardinality(rafAnimate) <= 1
    /\ \A cb \in rafAnimate : cb.id = requestRef /\ cb.id \notin rafPredict

\* frames have run, a replacement has restarted the loop, a hand is
\* detected and a detector callback is pending beside the animate callback
C8_Witness ==
    /\ frames > 0
    /\ replacements > 0
    /\ handPosRef.detected
    /\ rafPredict # {}
    /\ Cardinality(rafAnimate) = 1

----------------------------------------------------------------------------
(* Frame properties of Particle.update (checked under SpecUpdate) *)

\* C11: update never changes a particle's size or colour, also in a frame
\* that respawns it on either respawn path: of the particle's fields an
\* update writes only x, y, vx, vy and life.
C11_SizeAndColourKept ==
    [][frames' = frames + 1
         => /\ particles'[1].size = particles[1].size
            /\ particles'[1].color = particles[1].color
            /\ particles'[1].baseX = particles[1].baseX
            /\ particles'[1].baseY = particles[1].baseY]_vars

\* a second or later update has respawned the particle from the pointer,
\* away from where it was, and it has the size and colour it had before
C11_Witness ==
    /\ last.did /\ last.out /\ EmitPath(last)
    /\ frames >= 2
    /\ particles[1].x # last.moved.x
    /\ particles[1].size = last.p0.size
    /\ particles[1].color = last.p0.color

\* gravity = 0, friction = 1, speed = 0 and no pointer detected
Still ==
    /\ config.gravity = 0
    /\ config.friction = Num(1, 0)
    /\ config.speed = 0
    /\ ~handPosRef.detected

\* C12: with gravity = 0, friction = 1, speed = 0 and the pointer never
\* detected, a particle is after any number of frames where the constructor
\* put it (baseX, baseY), its velocity is zero and no update respawns it,
\* the canvas being the one it was constructed on.
C12_Stasis ==
    Still =>
        /\ particles[1].x = particles[1].baseX
        /\ particles[1].y = particles[1].baseY
        /\ particles[1].vx = 0
        /\ particles[1].vy = 0
        /\ (last.did => ~last.out)

\* two or more frames have run on a still particle that was constructed on
\* the upper edge of the canvas, away from the left edge
C12_Witness ==
    /\ Still
    /\ frames >= 2
    /\ last.did
    /\ particles[1].x > 0
    /\ particles[1].y = 0
    /\ particles[1].x = particles[1].baseX

----------------------------------------------------------------------------
(* The interaction cursor (checked under SpecDetector) *)

\* the pointer state the force computation of a frame uses, for the config
\* and pointer signal the frame is run with
FramePointer(cfg, hand, width, height) ==
    [shown |-> hand.detected,
     x |-> MulF(hand.x, width),
     y |-> MulF(hand.y, height),
     closed |-> hand.gesture = "closed",
     radius |-> currentRadius(cfg, hand)]

\* C13: in every frame where the pointer is detected, the radius overlay
\* the frame draws has the effective radius of the frame's force computation
\* (interactionRadius * 1.2 for a closed gesture, interactionRadius
\* otherwise), at the same pointer position and with the same closed state.
C13_OverlayIsEffectiveRadius ==
    [][frames' = frames + 1
         => \A cb \in rafAnimate :
               handPosRef.detected
                 => Overlay(cb.cfg, handPosRef, canvas.width, canvas.height)
                      = FramePointer(cb.cfg, handPosRef, canvas.width,
                                     canvas.height)]_vars

====
